---- MODULE Spec2Model ----
(***************************************************************************)
(* State-machine model of the real-time audio pipeline of src/index.tsx    *)
(* (class PromptDj): the session lifecycle (connectLiveSession,            *)
(* stopPlayback, pausePlayback, resumePlayback and the live-session        *)
(* callbacks), the playback scheduler inside onmessage, the throttled      *)
(* prompt push and the recording button.                                   *)
(*                                                                         *)
(* Every handler is one action.  A handler that contains an await is cut   *)
(* at the await: the part before it is one action, the continuation is     *)
(* another one, and any other handler may run in between.                  *)
(***************************************************************************)
EXTENDS Integers, FiniteSets, Sequences

\* ---------------------------------------------------------------- bounds
MaxConnects == 2      \* connectLiveSession invocations in one behaviour
MaxMsgs == 2          \* audio messages received in one behaviour
MaxTime == 2          \* ticks of outputAudioContext.currentTime

SessionIds == 1..MaxConnects
Durations == {1}      \* sample of decoded segment lengths, in ticks
NoAudio == -1         \* a message without inlineData.data

MaxPrompts == 2       \* prompts in the list
MaxClock == 300       \* last value of Date.now()
ClockStep == 50       \* Date.now() advances in steps of this many ms

ThrottleDelay == 100  \* throttle(..., 100)
InitialWeight == 100  \* weight: 1.0 of a new prompt, in hundredths
FallbackWeight == 70  \* weight: 0.7 of the fallback prompt, in hundredths
Texts == {"Funk"}     \* sample of PROMPT_TEXT_PRESETS
NewWeights == {50, 200}   \* sample of slider values, in hundredths

VARIABLES
  attached,            \* the element is in the document
  playbackState,       \* @state playbackState
  inputAudioContext,   \* TRUE: a live context is referenced, FALSE: null
  outputAudioContext,
  outputGainNode,
  gainOut,             \* what the gain node is connected to
  currentTime,         \* outputAudioContext.currentTime
  nextStartTime,
  sources,             \* Set<AudioBufferSourceNode>, as records
  stopped,             \* ids of the sources stopped by stop() whose 'ended' event
                       \* has not fired yet
  mediaStream,         \* 0: null, c: the stream granted to connect c
  scriptProcessor,     \* 0: null, c: the processor wired by session c's onopen
  sessionPromise,      \* 0: null, c: the promise returned by ai.live.connect
  session,             \* status of every remote session
  opened,              \* sessions whose promise has resolved
  nConnects,           \* connectLiveSession invocations so far
  gumPending,          \* connects suspended on getUserMedia
  stopAwait,           \* sessions a suspended stopPlayback awaits
  decoding,            \* onmessage invocations suspended on decodeAudioData
  nMsgs,               \* audio messages received so far
  prompts,             \* @state prompts, as a sequence of [id, text, weight]
  dateNow,             \* Date.now(), in ms
  lastCall,            \* throttle's lastCall
  thenQueue,           \* config pushes queued on the pending session promise
  remoteConfig,        \* the config the session received last (at connect or by a push)
  recordingState,      \* @state recordingState
  recordedAudioUrl,    \* TRUE: an object URL is exposed, FALSE: null
  mediaRecorder,       \* "none", "recording" or "inactive"
  recordedChunks,      \* TRUE: the buffer holds data
  ffmpeg,              \* TRUE: an FFmpeg instance is referenced
  recJob,              \* where mediaRecorder.onstop is: "none", "stopEvent", "loading", "exec"
  ev,                  \* history: the UI or session handler that ran last
  stopDone,            \* history: stopPlayback completed since the last connect call
  stopCalls,           \* history: stopPlayback calls since a resource was last acquired
                       \* (initializeAudioContexts, getUserMedia)
  teardowns,           \* history: cleanups that released something since then
  idleCleanup,         \* history: the last cleanup since then found nothing to release
  sched,               \* history: <<>> or the last segment started while playing, as
                       \* [start, recv: device time at receipt, at: device time at
                       \* start(), prev: runPrev before it]
  runFrom,             \* history: messages received when the clock was last reset,
                       \* or playback last paused or stopped
  runPrev,             \* history: end of the segment started before, 0 after a clock
                       \* reset, -1 when the clock was carried over a pause or stop
  raised,              \* history: a handler threw
  frameOut,            \* history: what the last capture frame did
  resumed,             \* history: -2 none, -1 resumePlayback ran, k: message k came
                       \* first after it; -3 when a decode in flight or an
                       \* interruption came in between
  resumeStart,         \* history: <<start, receipt time>> of that message's source
  pausedClock,         \* history: <<>> or, for the last segment decoded on the paused
                       \* branch, <<clock after it, clock clamped at its receipt + duration>>
  lastStart,           \* history: <<>> or the source the last step started, as [past: its
                       \* start time was before the device time at start(), stale:
                       \* received before the last interruption, overtook: an
                       \* earlier segment of the same run was still decoding]
  winStart,            \* history: time of the first mutation of the current window, -1: none
  winPushes,           \* history: pushes sent for that window (2 stands for more)
  winOpen              \* history: every mutation of the window found the session open

vars == <<attached, playbackState, inputAudioContext, outputAudioContext,
          outputGainNode, gainOut, currentTime, nextStartTime, sources, stopped, mediaStream,
          scriptProcessor, sessionPromise, session, opened, nConnects,
          gumPending, stopAwait, decoding, nMsgs, ev, stopDone, stopCalls,
          teardowns, idleCleanup, sched, runFrom, runPrev, raised, frameOut, resumed,
          resumeStart, pausedClock, lastStart, prompts, dateNow, lastCall, thenQueue, remoteConfig,
          recordingState, recordedAudioUrl, mediaRecorder, recordedChunks, ffmpeg,
          recJob, winStart, winPushes, winOpen>>

promptVars == <<prompts, dateNow, lastCall, thenQueue, remoteConfig, winStart,
                winPushes, winOpen>>

recVars == <<recordingState, recordedAudioUrl, mediaRecorder, recordedChunks, ffmpeg,
             recJob>>

sessionVars == <<attached, playbackState, sessionPromise, session, opened, nConnects,
                 gumPending, stopAwait, decoding, nMsgs>>

audioVars == <<inputAudioContext, outputAudioContext, outputGainNode, gainOut,
               currentTime, nextStartTime, sources, stopped, mediaStream, scriptProcessor>>

Max(a, b) == IF a >= b THEN a ELSE b

\* A handle is live from ai.live.connect until its close or error callback.
Live(s) == session[s] \in {"connecting", "open", "closing"}

LiveHandles == {s \in SessionIds : Live(s)}

Init ==
  /\ attached = TRUE
  /\ playbackState = "stopped"
  /\ inputAudioContext = TRUE      \* connectedCallback: initializeAudioContexts
  /\ outputAudioContext = TRUE
  /\ outputGainNode = TRUE
  /\ gainOut = {"destination"}
  /\ currentTime = 0
  /\ nextStartTime = 0
  /\ sources = {}
  /\ stopped = {}
  /\ mediaStream = 0
  /\ scriptProcessor = 0
  /\ sessionPromise = 0
  /\ session = [s \in SessionIds |-> "none"]
  /\ opened = {}
  /\ nConnects = 0
  /\ gumPending = {}
  /\ stopAwait = {}
  /\ decoding = {}
  /\ nMsgs = 0
  /\ ev = "init"
  /\ stopDone = FALSE
  /\ stopCalls = 0
  /\ teardowns = 0
  /\ idleCleanup = FALSE
  /\ sched = <<>>
  /\ runFrom = 0
  /\ runPrev = 0
  /\ raised = FALSE
  /\ frameOut = "none"
  /\ resumed = -2
  /\ resumeStart = <<>>
  /\ pausedClock = <<>>
  /\ lastStart = <<>>
  /\ prompts = <<>>
  /\ dateNow = ThrottleDelay      \* any time at least `delay` ms after the epoch
  /\ lastCall = 0
  /\ thenQueue = [s \in SessionIds |-> 0]
  /\ remoteConfig = <<>>
  /\ recordingState = "idle"
  /\ recordedAudioUrl = FALSE
  /\ mediaRecorder = "none"
  /\ recordedChunks = FALSE
  /\ ffmpeg = FALSE
  /\ recJob = "none"
  /\ winStart = -1
  /\ winPushes = 0
  /\ winOpen = FALSE

\* ------------------------------------------------------------- prompts
\* get currentMusicConfig as it would be without the fallback for an empty list
currentMusicConfigNoFallback(ps) ==
  [i \in 1..Len(ps) |-> [text |-> ps[i].text, weight |-> ps[i].weight]]

\* get currentMusicConfig: text and weight of every prompt, or the fallback
\* prompt when the list is empty
currentMusicConfig(ps) ==
  IF Len(ps) > 0
    THEN [i \in 1..Len(ps) |-> [text |-> ps[i].text, weight |-> ps[i].weight]]
    ELSE <<[text |-> "ambient pads", weight |-> FallbackWeight]>>

\* ------------------------------------------------------- history helpers
StopCap == 2          \* stopCalls saturates here: 2 stands for "N > 1"

histVars == <<stopDone, stopCalls, teardowns, idleCleanup, sched, runFrom, runPrev, raised,
              frameOut, resumed, resumeStart, pausedClock, lastStart>>

histButRaised == <<stopDone, stopCalls, teardowns, idleCleanup, sched, runFrom, runPrev,
                   frameOut, resumed, resumeStart, pausedClock, lastStart>>

\* the ids of a set of sources
SourceIds(srcs) == {src.id : src \in srcs}

\* cleanupAudioResources as it would be without its guards: every call releases
CleanupReleasesUnguarded == TRUE

\* cleanupAudioResources releases something: a device, a context, a source, the clock
CleanupReleases ==
  \/ mediaStream # 0
  \/ scriptProcessor # 0
  \/ inputAudioContext
  \/ outputAudioContext
  \/ sources # {}
  \/ nextStartTime # 0

\* ------------------------------------------------ audio context helpers
\* initializeAudioContexts: re-create what is null; a new output context starts at time 0
initializeAudioContexts ==
  /\ inputAudioContext' = TRUE
  /\ outputAudioContext' = TRUE
  /\ outputGainNode' = (IF outputAudioContext THEN outputGainNode ELSE TRUE)
  /\ gainOut' = (IF outputAudioContext THEN gainOut ELSE {"destination"})
  /\ currentTime' = (IF outputAudioContext THEN currentTime ELSE 0)

\* cleanupAudioResources as it would be without `this.mediaStream = null`
cleanupKeepsStream ==
  /\ mediaStream' = mediaStream
  /\ scriptProcessor' = 0
  /\ inputAudioContext' = FALSE
  /\ outputAudioContext' = FALSE
  /\ outputGainNode' = (IF outputAudioContext THEN FALSE ELSE outputGainNode)
  /\ gainOut' = (IF outputAudioContext THEN {} ELSE gainOut)
  /\ currentTime' = 0
  /\ sources' = {}
  /\ stopped' = stopped \cup SourceIds(sources)
  /\ nextStartTime' = 0
  /\ teardowns' = (IF CleanupReleases THEN teardowns + 1 ELSE teardowns)
  /\ idleCleanup' = ~CleanupReleases
  /\ sched' = <<>>
  /\ runFrom' = nMsgs
  /\ runPrev' = 0
  /\ resumed' = -2
  /\ resumeStart' = <<>>
  /\ pausedClock' = <<>>
  /\ lastStart' = <<>>

\* cleanupAudioResources: stop the tracks, disconnect the processor, close both
\* contexts, stop and forget every source, reset the clock
cleanupAudioResources ==
  /\ mediaStream' = 0
  /\ scriptProcessor' = 0
  /\ inputAudioContext' = FALSE
  /\ outputAudioContext' = FALSE
  /\ outputGainNode' = (IF outputAudioContext THEN FALSE ELSE outputGainNode)
  /\ gainOut' = (IF outputAudioContext THEN {} ELSE gainOut)
  /\ currentTime' = 0
  /\ sources' = {}
  /\ stopped' = stopped \cup SourceIds(sources)
  /\ nextStartTime' = 0
  /\ teardowns' = (IF CleanupReleases THEN teardowns + 1 ELSE teardowns)
  /\ idleCleanup' = ~CleanupReleases
  /\ sched' = <<>>
  /\ runFrom' = nMsgs
  /\ runPrev' = 0
  /\ resumed' = -2
  /\ resumeStart' = <<>>
  /\ pausedClock' = <<>>
  /\ lastStart' = <<>>

\* ------------------------------------------------------------ lifecycle
\* connectLiveSession's own guard (first statement)
ConnectRejected == playbackState \in {"playing", "loading"}

\* Play button while stopped: connectLiveSession up to the await on getUserMedia
ConnectLiveSession ==
  /\ attached
  /\ playbackState = "stopped"
  /\ ~ConnectRejected
  /\ nConnects < MaxConnects
  /\ playbackState' = "loading"
  /\ initializeAudioContexts
  /\ nConnects' = nConnects + 1
  /\ gumPending' = gumPending \cup {nConnects + 1}
  /\ ev' = "connect"
  /\ stopDone' = FALSE
  /\ stopCalls' = 0
  /\ teardowns' = 0
  /\ idleCleanup' = FALSE
  /\ UNCHANGED <<attached, nextStartTime, sources, stopped, mediaStream, scriptProcessor,
                 sessionPromise, session, opened, stopAwait, decoding, nMsgs,
                 sched, runFrom, runPrev, raised, frameOut, resumed, resumeStart, pausedClock, lastStart>>
  /\ UNCHANGED <<promptVars, recVars>>

\* getUserMedia resolves: the stream is stored and ai.live.connect is called (not awaited)
GumGranted(c) ==
  /\ c \in gumPending
  /\ gumPending' = gumPending \ {c}
  /\ mediaStream' = c
  /\ sessionPromise' = c
  /\ session' = [session EXCEPT ![c] = "connecting"]
  /\ ev' = "granted"
  /\ stopCalls' = 0
  /\ teardowns' = 0
  /\ idleCleanup' = FALSE
  /\ UNCHANGED <<attached, playbackState, inputAudioContext, outputAudioContext,
                 outputGainNode, gainOut, currentTime, nextStartTime, sources, stopped,
                 scriptProcessor, opened, nConnects, stopAwait, decoding, nMsgs,
                 stopDone, sched, runFrom, runPrev, raised, frameOut, resumed,
                 resumeStart, pausedClock, lastStart>>
  /\ remoteConfig' = currentMusicConfig(prompts)
  /\ UNCHANGED <<prompts, dateNow, lastCall, thenQueue, winStart, winPushes, winOpen>>
  /\ UNCHANGED recVars

\* getUserMedia rejects: the catch block of connectLiveSession
GumDenied(c) ==
  /\ c \in gumPending
  /\ gumPending' = gumPending \ {c}
  /\ playbackState' = "stopped"
  /\ cleanupAudioResources
  /\ sessionPromise' = 0
  /\ ev' = "denied"
  /\ UNCHANGED <<attached, session, opened, nConnects, stopAwait, decoding, nMsgs,
                 stopDone, stopCalls, raised, frameOut>>
  /\ UNCHANGED <<promptVars, recVars>>

\* the session's onopen, then everything the resolved promise resumes in the
\* same task: a stopPlayback suspended on `await this.sessionPromise`
OnOpen(s) ==
  /\ session[s] = "connecting"
  /\ LET bad == ~inputAudioContext \/ mediaStream = 0
         stopping == s \in stopAwait
     IN /\ IF bad
             THEN /\ cleanupAudioResources
                  /\ sessionPromise' = 0
             ELSE /\ scriptProcessor' = s
                  /\ UNCHANGED <<inputAudioContext, outputAudioContext, outputGainNode, gainOut,
                                 currentTime, nextStartTime, sources, stopped, mediaStream,
                                 sessionPromise, teardowns, idleCleanup, sched, runFrom, runPrev,
                                 resumed, resumeStart, pausedClock, lastStart>>
        /\ playbackState' = (IF bad \/ stopping THEN "stopped" ELSE "playing")
        /\ session' = [session EXCEPT ![s] = IF stopping THEN "closing" ELSE "open"]
        /\ stopDone' = (stopDone \/ stopping)
  /\ opened' = opened \cup {s}
  /\ stopAwait' = stopAwait \ {s}
  /\ ev' = "open"
  /\ UNCHANGED <<attached, nConnects, gumPending, decoding, nMsgs, stopCalls,
                 raised, frameOut>>
  \* the `.then` callbacks of sendPromptUpdate queued on this promise run now
  /\ LET delivered == thenQueue[s] > 0 /\ s \notin stopAwait
     IN /\ remoteConfig' = (IF delivered THEN currentMusicConfig(prompts)
                            ELSE remoteConfig)
        /\ winPushes' = (IF delivered /\ winPushes < 2 THEN winPushes + 1
                         ELSE winPushes)
  /\ thenQueue' = [thenQueue EXCEPT ![s] = 0]
  /\ UNCHANGED <<prompts, dateNow, lastCall, winStart, winOpen>>
  /\ UNCHANGED recVars

\* the promise of ai.live.connect rejects; nothing awaits it but a suspended
\* stopPlayback, which then throws before it reports stopped
OpenRejected(s) ==
  /\ session[s] = "connecting"
  /\ session' = [session EXCEPT ![s] = "rejected"]
  /\ stopAwait' = stopAwait \ {s}
  /\ raised' = (raised \/ s \in stopAwait)
  /\ ev' = "rejected"
  /\ UNCHANGED <<attached, playbackState, sessionPromise, opened, nConnects,
                 gumPending, decoding, nMsgs, stopDone, stopCalls, teardowns, idleCleanup,
                 sched, runFrom, runPrev, frameOut, resumed, resumeStart, pausedClock, lastStart>>
  /\ UNCHANGED audioVars
  /\ thenQueue' = [thenQueue EXCEPT ![s] = 0]
  /\ UNCHANGED <<prompts, dateNow, lastCall, remoteConfig, winStart, winPushes, winOpen>>
  /\ UNCHANGED recVars

\* body shared by onerror and onclose
SessionEnded ==
  /\ playbackState' = "stopped"
  /\ cleanupAudioResources
  /\ sessionPromise' = 0

\* the session's onerror
OnError(s) ==
  /\ session[s] \in {"connecting", "open", "closing"}
  /\ session' = [session EXCEPT ![s] = "errored"]
  /\ SessionEnded
  /\ stopAwait' = stopAwait \ {s}
  /\ ev' = "error"
  /\ UNCHANGED <<attached, opened, nConnects, gumPending, decoding, nMsgs,
                 stopDone, stopCalls, raised, frameOut>>
  /\ UNCHANGED <<promptVars, recVars>>

\* the session's onclose: after close(), after an error, or closed by the peer
OnClose(s) ==
  /\ session[s] \in {"open", "closing", "errored"}
  /\ session' = [session EXCEPT ![s] = "closed"]
  /\ SessionEnded
  /\ ev' = "close"
  /\ UNCHANGED <<attached, opened, nConnects, gumPending, stopAwait, decoding,
                 nMsgs, stopDone, stopCalls, raised, frameOut>>
  /\ UNCHANGED <<promptVars, recVars>>

\* stopPlayback: awaits the session promise when there is one, closes the
\* session and reports stopped; it releases nothing itself
stopPlayback ==
  LET sp == sessionPromise
  IN /\ stopCalls' = (IF stopCalls < StopCap THEN stopCalls + 1 ELSE stopCalls)
     /\ IF sp # 0 /\ sp \notin opened
          THEN \* the promise is pending (suspend) or rejected (the await throws)
               /\ stopAwait' = (IF session[sp] = "rejected" THEN stopAwait
                                ELSE stopAwait \cup {sp})
               /\ raised' = (raised \/ session[sp] = "rejected")
               /\ UNCHANGED <<playbackState, session, stopDone, sched, runFrom,
                              runPrev, resumed, resumeStart, pausedClock, lastStart>>
          ELSE /\ session' = (IF sp # 0 /\ session[sp] = "open"
                                THEN [session EXCEPT ![sp] = "closing"]
                                ELSE session)
               /\ playbackState' = "stopped"
               /\ stopDone' = TRUE
               /\ sched' = <<>>
               /\ runFrom' = nMsgs
               /\ runPrev' = -1
               /\ resumed' = -2
               /\ resumeStart' = <<>>
               /\ pausedClock' = <<>>
               /\ lastStart' = <<>>
               /\ UNCHANGED <<stopAwait, raised>>
     /\ UNCHANGED <<sessionPromise, opened, nConnects, gumPending, decoding, nMsgs,
                    teardowns, idleCleanup, frameOut>>
     /\ UNCHANGED audioVars
     /\ UNCHANGED <<promptVars, recVars>>

\* Stop button: rendered disabled while stopped or loading
StopButtonClick ==
  /\ attached
  /\ playbackState \notin {"stopped", "loading"}
  /\ stopPlayback
  /\ ev' = "stop"
  /\ UNCHANGED attached

\* the element leaves the document: stopPlayback in whatever state it is
DisconnectedCallback ==
  /\ attached
  /\ attached' = FALSE
  /\ stopPlayback
  /\ ev' = "stop"

\* the element is put back into the document
ConnectedCallback ==
  /\ ~attached
  /\ attached' = TRUE
  /\ initializeAudioContexts
  /\ ev' = "attach"
  /\ stopCalls' = 0
  /\ teardowns' = 0
  /\ idleCleanup' = FALSE
  /\ UNCHANGED <<playbackState, nextStartTime, sources, stopped, mediaStream, scriptProcessor,
                 sessionPromise, session, opened, nConnects, gumPending, stopAwait,
                 decoding, nMsgs, stopDone, sched, runFrom, runPrev, raised,
                 frameOut, resumed, resumeStart, pausedClock, lastStart>>
  /\ UNCHANGED <<promptVars, recVars>>

\* pausePlayback as it would be if it closed the session as stopPlayback does
pausePlaybackClosing ==
  /\ attached
  /\ playbackState = "playing"
  /\ sources' = {}
  /\ stopped' = stopped \cup SourceIds(sources)
  /\ playbackState' = "paused"
  /\ session' = (IF sessionPromise # 0 /\ session[sessionPromise] = "open"
                   THEN [session EXCEPT ![sessionPromise] = "closing"]
                   ELSE session)
  /\ ev' = "pause"
  /\ sched' = <<>>
  /\ runFrom' = nMsgs
  /\ runPrev' = -1
  /\ resumed' = -2
  /\ resumeStart' = <<>>
  /\ pausedClock' = <<>>
  /\ lastStart' = <<>>
  /\ UNCHANGED <<attached, inputAudioContext, outputAudioContext, outputGainNode, gainOut,
                 currentTime, nextStartTime, mediaStream, scriptProcessor,
                 sessionPromise, opened, nConnects, gumPending, stopAwait,
                 decoding, nMsgs, stopDone, stopCalls, teardowns, idleCleanup, raised, frameOut>>
  /\ UNCHANGED <<promptVars, recVars>>

\* pausePlayback as it would be without its guard
PauseAppliesAlways == TRUE

\* pausePlayback goes on: `if (this.playbackState !== 'playing') return`
PauseApplies == playbackState = "playing"

\* resumePlayback goes on: `if (this.playbackState !== 'paused') return`
ResumeApplies == playbackState = "paused"

\* Play/Pause button while playing
pausePlayback ==
  /\ attached
  /\ PauseApplies
  /\ sources' = {}
  /\ stopped' = stopped \cup SourceIds(sources)
  /\ playbackState' = "paused"
  /\ ev' = "pause"
  /\ sched' = <<>>
  /\ runFrom' = nMsgs
  /\ runPrev' = -1
  /\ resumed' = -2
  /\ resumeStart' = <<>>
  /\ pausedClock' = <<>>
  /\ lastStart' = <<>>
  /\ UNCHANGED <<attached, inputAudioContext, outputAudioContext, outputGainNode, gainOut,
                 currentTime, nextStartTime, mediaStream, scriptProcessor,
                 sessionPromise, session, opened, nConnects, gumPending, stopAwait,
                 decoding, nMsgs, stopDone, stopCalls, teardowns, idleCleanup, raised, frameOut>>
  /\ UNCHANGED <<promptVars, recVars>>

\* Play/Pause button while paused
resumePlayback ==
  /\ attached
  /\ ResumeApplies
  /\ playbackState' = "playing"
  /\ ev' = "resume"
  /\ resumed' = (IF decoding = {} THEN -1 ELSE -3)
  /\ resumeStart' = <<>>
  /\ pausedClock' = <<>>
  /\ lastStart' = <<>>
  /\ UNCHANGED <<attached, inputAudioContext, outputAudioContext, outputGainNode, gainOut,
                 currentTime, nextStartTime, sources, stopped, mediaStream, scriptProcessor,
                 sessionPromise, session, opened, nConnects, gumPending, stopAwait,
                 decoding, nMsgs, stopDone, stopCalls, teardowns, idleCleanup, sched, runFrom,
                 runPrev, raised, frameOut>>
  /\ UNCHANGED <<promptVars, recVars>>

\* onaudioprocess as it would be without the test of playbackState
FrameOutcomeAnyState ==
  IF sessionPromise = 0 THEN "threw"
  ELSE IF sessionPromise \notin opened
         THEN (IF session[sessionPromise] = "rejected" THEN "failed" ELSE "deferred")
  ELSE IF session[sessionPromise] = "open" THEN "sent"
  ELSE "failed"

\* what onaudioprocess does with one capture frame
FrameOutcome ==
  IF sessionPromise = 0 THEN "threw"
  ELSE IF sessionPromise \notin opened
         THEN (IF session[sessionPromise] = "rejected" THEN "failed" ELSE "deferred")
  ELSE IF playbackState \in {"stopped", "loading"} THEN "skipped"
  ELSE IF session[sessionPromise] = "open" THEN "sent"
  ELSE "failed"

\* the script processor delivers one capture frame
OnAudioProcess ==
  /\ scriptProcessor # 0
  /\ frameOut' = FrameOutcome
  /\ raised' = (raised \/ sessionPromise = 0)
  /\ ev' = "frame"
  /\ UNCHANGED <<attached, playbackState, sessionPromise, session, opened, nConnects,
                 gumPending, stopAwait, decoding, nMsgs, stopDone, stopCalls,
                 teardowns, idleCleanup, sched, runFrom, runPrev, resumed, resumeStart, pausedClock, lastStart>>
  /\ UNCHANGED audioVars
  /\ UNCHANGED <<promptVars, recVars>>

\* a call that returns at its guard: nothing changes
IgnoredCall(tag) ==
  /\ attached
  /\ ev' = tag
  /\ UNCHANGED <<sessionVars, audioVars, histVars, promptVars, recVars>>

\* connectLiveSession called while playing or loading
ConnectWhileBusy == ConnectRejected /\ IgnoredCall("connectIgnored")

\* pausePlayback called in another state than playing
PauseOutsidePlaying == ~PauseApplies /\ IgnoredCall("pauseIgnored")

\* resumePlayback called in another state than paused
ResumeOutsidePaused == ~ResumeApplies /\ IgnoredCall("resumeIgnored")

\* ------------------------------------------------------------ scheduler
\* The 'ended' event of a source that stop() has stopped is dispatched within
\* the tick of the device clock in which stop() was called.
NoPendingEnded == stopped = {}

\* the output device's clock advances
Tick ==
  /\ outputAudioContext
  /\ NoPendingEnded
  /\ currentTime < MaxTime
  /\ currentTime' = currentTime + 1
  /\ UNCHANGED <<attached, playbackState, inputAudioContext, outputAudioContext,
                 outputGainNode, gainOut, nextStartTime, sources, stopped, mediaStream, scriptProcessor,
                 sessionPromise, session, opened, nConnects, gumPending, stopAwait,
                 decoding, nMsgs, ev>>
  /\ lastStart' = <<>>
  /\ UNCHANGED <<stopDone, stopCalls, teardowns, idleCleanup, sched, runFrom, runPrev, raised,
                 frameOut, resumed, resumeStart, pausedClock>>
  /\ UNCHANGED <<promptVars, recVars>>

\* nextStartTime = Math.max(nextStartTime, outputAudioContext.currentTime)
ClampToNow(t, now) == Max(t, now)

\* the interrupted branch as it would be without `this.nextStartTime = 0`
InterruptedClockKept(t) == t

\* the clock after the interrupted branch
InterruptedClock(t) == 0

\* the source set after the interrupted branch: every source is stopped and deleted
InterruptedSources(srcs) == {}

\* first branch of onmessage: audio data, an output context and gain node, not paused
PlayBranch(a) ==
  /\ a # NoAudio
  /\ outputAudioContext
  /\ outputGainNode
  /\ playbackState # "paused"

\* second branch of onmessage: audio data while paused (and not the first branch)
PausedBranch(a) ==
  /\ a # NoAudio
  /\ ~PlayBranch(a)
  /\ playbackState = "paused"
  /\ outputAudioContext

\* history: the interrupted branch has run since these segments were received
MarkStale(ms) == {[m EXCEPT !.stale = TRUE] : m \in ms}

\* onmessage up to its await on decodeAudioData, or to its end when it decodes nothing
OnMessage(s, a, intr) ==
  /\ session[s] \in {"open", "closing"}
  /\ IF PlayBranch(a) \/ PausedBranch(a)
       THEN /\ nMsgs < MaxMsgs
            /\ nMsgs' = nMsgs + 1
            /\ nextStartTime' = ClampToNow(nextStartTime, currentTime)
            /\ decoding' = decoding \cup
                 {[id |-> nMsgs + 1, play |-> PlayBranch(a), dur |-> a,
                   intr |-> intr, recv |-> currentTime, stale |-> FALSE,
                   clamp |-> ClampToNow(nextStartTime, currentTime)]}
            /\ resumed' = (IF resumed = -1 /\ PlayBranch(a) /\ decoding = {}
                             THEN nMsgs + 1
                           ELSE IF resumed = -2 THEN -2 ELSE -3)
            /\ UNCHANGED <<sources, stopped, sched, runFrom, runPrev, resumeStart,
                           pausedClock>>
       ELSE /\ nextStartTime' = (IF intr THEN InterruptedClock(nextStartTime)
                                 ELSE nextStartTime)
            /\ sources' = (IF intr THEN InterruptedSources(sources) ELSE sources)
            /\ stopped' = (IF intr THEN stopped \cup SourceIds(sources) ELSE stopped)
            /\ decoding' = (IF intr THEN MarkStale(decoding) ELSE decoding)
            /\ sched' = (IF intr THEN <<>> ELSE sched)
            /\ runFrom' = (IF intr THEN nMsgs ELSE runFrom)
            /\ runPrev' = (IF intr THEN 0 ELSE runPrev)
            /\ resumed' = (IF intr /\ resumed # -2 THEN -3 ELSE resumed)
            /\ UNCHANGED <<nMsgs, resumeStart, pausedClock>>
  /\ ev' = (IF intr /\ ~(PlayBranch(a) \/ PausedBranch(a)) THEN "interrupted"
            ELSE "message")
  /\ lastStart' = <<>>
  /\ UNCHANGED <<attached, playbackState, inputAudioContext, outputAudioContext,
                 outputGainNode, gainOut, currentTime, mediaStream, scriptProcessor,
                 sessionPromise, session, opened, nConnects, gumPending, stopAwait,
                 stopDone, stopCalls, teardowns, idleCleanup, raised, frameOut>>
  /\ UNCHANGED <<promptVars, recVars>>

\* decodeAudioData resolves: the rest of onmessage
DecodeDone(m) ==
  /\ m \in decoding
  /\ decoding' = (IF m.intr /\ ~(m.play /\ (~outputAudioContext \/ ~outputGainNode))
                   THEN MarkStale(decoding \ {m}) ELSE decoding \ {m})
  /\ LET threw == m.play /\ (~outputAudioContext \/ ~outputGainNode)
         started == m.play /\ ~threw
         src == [id |-> m.id, start |-> nextStartTime, dur |-> m.dur]
         t1 == nextStartTime + m.dur
         srcs1 == IF started THEN sources \cup {src} ELSE sources
         inRun == started /\ playbackState = "playing" /\ m.id > runFrom /\ runPrev >= 0
     IN IF threw
          THEN /\ raised' = TRUE
               /\ ev' = "message"
               /\ lastStart' = <<>>
               /\ UNCHANGED <<nextStartTime, sources, stopped, sched, runFrom, runPrev,
                              resumeStart, pausedClock>>
          ELSE /\ nextStartTime' = (IF m.intr THEN InterruptedClock(t1) ELSE t1)
               /\ sources' = (IF m.intr THEN InterruptedSources(srcs1) ELSE srcs1)
               /\ stopped' = (IF m.intr THEN stopped \cup SourceIds(srcs1) ELSE stopped)
               /\ lastStart' = (IF started
                                 THEN <<[past |-> nextStartTime < currentTime,
                                         stale |-> m.stale,
                                         overtook |-> \E o \in decoding :
                                            o.play /\ ~o.stale /\ o.id < m.id]>>
                               ELSE <<>>)
               /\ sched' = (IF m.intr THEN <<>>
                            ELSE IF inRun
                              THEN <<[start |-> nextStartTime, recv |-> m.recv,
                                      at |-> currentTime, prev |-> runPrev]>>
                            ELSE sched)
               /\ runFrom' = (IF m.intr THEN nMsgs ELSE runFrom)
               /\ runPrev' = (IF m.intr THEN 0
                              ELSE IF started /\ runPrev >= 0 THEN t1
                              ELSE IF started THEN runPrev
                              ELSE -1)
               /\ resumeStart' = (IF started /\ resumed = m.id
                                    THEN <<nextStartTime, m.recv>> ELSE resumeStart)
               /\ pausedClock' = (IF ~m.play /\ ~m.intr /\ m.id > runFrom
                                    THEN <<t1, m.clamp + m.dur>> ELSE pausedClock)
               /\ ev' = (IF m.intr THEN "interrupted" ELSE "message")
               /\ UNCHANGED raised
  /\ UNCHANGED <<attached, playbackState, inputAudioContext, outputAudioContext,
                 outputGainNode, gainOut, currentTime, mediaStream, scriptProcessor,
                 sessionPromise, session, opened, nConnects, gumPending, stopAwait,
                 nMsgs, stopDone, stopCalls, teardowns, idleCleanup, frameOut, resumed>>
  /\ UNCHANGED <<promptVars, recVars>>

\* the 'ended' listener as it would be with `this.sources.clear()`
EndedClears(srcs, k) == {}

\* the 'ended' listener of source k: this.sources.delete(source)
EndedRemoves(srcs, k) == {src \in srcs : src.id # k}

\* the 'ended' event of source k: the device has played it to its end, or stop()
\* was called on it (it is then no longer in `sources`)
SourceEnded(k) ==
  /\ \/ k \in stopped
     \/ \E src \in sources : src.id = k /\ currentTime >= src.start + src.dur
  /\ stopped' = stopped \ {k}
  /\ sources' = EndedRemoves(sources, k)
  /\ ev' = (IF k \in stopped THEN "lateEnded" ELSE ev)
  /\ UNCHANGED <<attached, playbackState, inputAudioContext, outputAudioContext,
                 outputGainNode, gainOut, currentTime, nextStartTime, mediaStream,
                 scriptProcessor, sessionPromise, session, opened, nConnects,
                 gumPending, stopAwait, decoding, nMsgs>>
  /\ lastStart' = <<>>
  /\ UNCHANGED <<stopDone, stopCalls, teardowns, idleCleanup, sched, runFrom, runPrev, raised,
                 frameOut, resumed, resumeStart, pausedClock>>
  /\ UNCHANGED <<promptVars, recVars>>

\* ------------------------------------------------------- prompt updates
\* throttle's gate: the call goes through when `delay` ms have passed since
\* the last call that went through
ThrottlePasses(now, last) == now - last >= ThrottleDelay

\* sendPromptUpdate as it would be without `if (this.sessionPromise)`: `.then`
\* of null throws
PushThrowsWithoutGuard(sp) == sp = 0

\* sendPromptUpdate throws: never, `.then` is reached only with a promise
PushThrows(sp) == FALSE

\* this.sendPromptUpdate() right after this.prompts became ps: behind the gate,
\* `sessionPromise.then(session => session.sendRealtimeInput(currentMusicConfig))`
sendPromptUpdate(ps) ==
  LET sp == sessionPromise
      passes == ThrottlePasses(dateNow, lastCall)
      pending == sp # 0 /\ sp \notin opened /\ session[sp] # "rejected"
      isOpen == sp # 0 /\ sp \in opened /\ session[sp] = "open"
      delivered == passes /\ isOpen
      newWin == winStart = -1 \/ dateNow >= winStart + ThrottleDelay
  IN /\ lastCall' = (IF passes THEN dateNow ELSE lastCall)
     /\ thenQueue' = (IF passes /\ pending
                        THEN [thenQueue EXCEPT ![sp] = thenQueue[sp] + 1]
                      ELSE thenQueue)
     /\ remoteConfig' = (IF delivered THEN currentMusicConfig(ps) ELSE remoteConfig)
     /\ winStart' = (IF newWin THEN dateNow ELSE winStart)
     /\ winPushes' = (IF newWin THEN (IF delivered THEN 1 ELSE 0)
                      ELSE IF delivered /\ winPushes < 2 THEN winPushes + 1
                      ELSE winPushes)
     /\ winOpen' = ((newWin \/ winOpen) /\ isOpen)
     /\ raised' = (raised \/ (passes /\ PushThrows(sp)))
     /\ UNCHANGED dateNow

\* addPresetPrompt (addPrompt with a non-empty input does the same)
addPresetPrompt(presetText) ==
  /\ Len(prompts) < MaxPrompts
  /\ prompts' = Append(prompts, [id |-> dateNow, text |-> presetText,
                                 weight |-> InitialWeight])
  /\ sendPromptUpdate(prompts')
  /\ ev' = "prompt"
  /\ UNCHANGED <<sessionVars, audioVars, histButRaised, recVars>>

\* removePrompt
removePrompt(promptId) ==
  /\ \E i \in 1..Len(prompts) : prompts[i].id = promptId
  /\ prompts' = SelectSeq(prompts, LAMBDA q : q.id # promptId)
  /\ sendPromptUpdate(prompts')
  /\ ev' = "prompt"
  /\ UNCHANGED <<sessionVars, audioVars, histButRaised, recVars>>

\* updatePromptWeight
updatePromptWeight(promptId, newWeight) ==
  /\ \E i \in 1..Len(prompts) : prompts[i].id = promptId
  /\ prompts' = [i \in 1..Len(prompts) |->
                   IF prompts[i].id = promptId
                     THEN [prompts[i] EXCEPT !.weight = newWeight]
                     ELSE prompts[i]]
  /\ sendPromptUpdate(prompts')
  /\ ev' = "prompt"
  /\ UNCHANGED <<sessionVars, audioVars, histButRaised, recVars>>

\* Date.now() advances
ClockAdvance ==
  /\ dateNow + ClockStep <= MaxClock
  /\ dateNow' = dateNow + ClockStep
  /\ UNCHANGED <<prompts, lastCall, thenQueue, remoteConfig, winStart, winPushes,
                 winOpen, ev>>
  /\ UNCHANGED <<sessionVars, audioVars, histVars, recVars>>

\* ------------------------------------------------------------ recording
\* the Record button's `disabled` as it would be without `!isPlaying`
recordingDisabledAnyState == recordingState \in {"initializing", "processing"}

\* render: the Record button's `disabled`
recordingDisabled ==
  \/ recordingState = "initializing"
  \/ recordingState = "processing"
  \/ playbackState # "playing"

\* the stop branch as it would be if it reported idle at once
StateAfterStopIdle == "idle"

\* the stop branch: this.recordingState = 'processing'
StateAfterStop == "processing"

\* what a click on the Record button comes to
RecordClickOutcome ==
  IF recordingDisabled THEN "recordRejected"
  ELSE IF recordingState = "idle" /\ outputAudioContext THEN "recordStart"
  ELSE IF recordingState = "recording" THEN "recordStop"
  ELSE "recordIgnored"

\* handleRecordButtonClick
handleRecordButtonClick ==
  IF recordingState = "idle" /\ outputAudioContext
    THEN \* start: a new recorder on a new stream destination fed by the gain node
         /\ recordedChunks' = FALSE
         /\ recordedAudioUrl' = FALSE
         /\ gainOut' = (IF outputGainNode THEN gainOut \cup {"recorder"} ELSE gainOut)
         /\ mediaRecorder' = "recording"
         /\ recordingState' = "recording"
         /\ UNCHANGED <<ffmpeg, recJob>>
  ELSE IF recordingState = "recording"
    THEN \* stop: mediaRecorder.stop() queues the stop event; the gain node is
         \* disconnected from all of its outputs
         /\ mediaRecorder' = (IF mediaRecorder = "none" THEN "none" ELSE "inactive")
         /\ recJob' = (IF mediaRecorder = "recording" THEN "stopEvent" ELSE recJob)
         /\ gainOut' = (IF outputGainNode THEN {} ELSE gainOut)
         /\ recordingState' = StateAfterStop
         /\ UNCHANGED <<recordedChunks, recordedAudioUrl, ffmpeg>>
  ELSE UNCHANGED <<recVars, gainOut>>

\* a click on the Record button; a disabled button dispatches nothing
RecordButtonClick ==
  /\ attached
  /\ IF recordingDisabled
       THEN UNCHANGED <<recVars, gainOut>>
       ELSE handleRecordButtonClick
  /\ ev' = RecordClickOutcome
  /\ UNCHANGED <<inputAudioContext, outputAudioContext, outputGainNode, currentTime,
                 nextStartTime, sources, stopped, mediaStream, scriptProcessor>>
  /\ UNCHANGED <<sessionVars, histVars, promptVars>>

\* the recorder's dataavailable and stop events: onstop up to the await in loadFFmpeg
RecorderStopEvent(hasData) ==
  /\ recJob = "stopEvent"
  /\ recordedChunks' = (recordedChunks \/ hasData)
  /\ recordingState' = (IF ffmpeg THEN "processing" ELSE "initializing")
  /\ ffmpeg' = TRUE
  /\ recJob' = (IF ffmpeg THEN "exec" ELSE "loading")
  /\ ev' = "recorderStop"
  /\ UNCHANGED <<recordedAudioUrl, mediaRecorder>>
  /\ UNCHANGED <<sessionVars, audioVars, histVars, promptVars>>

\* ffmpeg.load resolves: onstop goes on to writeFile/exec/readFile
FfmpegLoaded ==
  /\ recJob = "loading"
  /\ recJob' = "exec"
  /\ ev' = "ffmpegLoaded"
  /\ UNCHANGED <<recordingState, recordedAudioUrl, mediaRecorder, recordedChunks, ffmpeg>>
  /\ UNCHANGED <<sessionVars, audioVars, histVars, promptVars>>

\* the catch of onstop as it would be without `this.recordingState = 'idle'`
StateAfterFailureKept == recordingState

\* the catch of onstop: this.recordingState = 'idle'
StateAfterFailure == "idle"

\* ffmpeg.load, writeFile, exec or readFile rejects: catch and finally of onstop
TranscodeFailed ==
  /\ recJob \in {"loading", "exec"}
  /\ recJob' = "none"
  /\ recordingState' = StateAfterFailure
  /\ ffmpeg' = FALSE
  /\ ev' = "transcodeFailed"
  /\ UNCHANGED <<recordedAudioUrl, mediaRecorder, recordedChunks>>
  /\ UNCHANGED <<sessionVars, audioVars, histVars, promptVars>>

\* readFile resolves: the object URL is created, then finally of onstop
TranscodeDone ==
  /\ recJob = "exec"
  /\ recJob' = "none"
  /\ recordedAudioUrl' = TRUE
  /\ recordingState' = "finished"
  /\ ffmpeg' = FALSE
  /\ ev' = "transcodeDone"
  /\ UNCHANGED <<mediaRecorder, recordedChunks>>
  /\ UNCHANGED <<sessionVars, audioVars, histVars, promptVars>>

\* ------------------------------------------------------- specifications
\* The session lifecycle: every UI action and every session callback but onmessage
Next ==
  \/ ConnectLiveSession
  \/ \E c \in SessionIds : GumGranted(c)
  \/ \E c \in SessionIds : GumDenied(c)
  \/ \E s \in SessionIds : OnOpen(s)
  \/ \E s \in SessionIds : OpenRejected(s)
  \/ \E s \in SessionIds : OnError(s)
  \/ \E s \in SessionIds : OnClose(s)
  \/ StopButtonClick
  \/ DisconnectedCallback
  \/ ConnectedCallback
  \/ pausePlayback
  \/ resumePlayback
  \/ OnAudioProcess
  \/ ConnectWhileBusy
  \/ PauseOutsidePlaying
  \/ ResumeOutsidePaused

Spec == Init /\ [][Next]_vars

\* The playback scheduler during the life of the first session
FirstConnect == nConnects = 0 /\ ConnectLiveSession

SchedNext ==
  \/ FirstConnect
  \/ \E c \in SessionIds : GumGranted(c)
  \/ \E s \in SessionIds : OnOpen(s)
  \/ \E s \in SessionIds : OnClose(s)
  \/ StopButtonClick
  \/ pausePlayback
  \/ resumePlayback
  \/ Tick
  \/ \E s \in SessionIds, a \in {NoAudio} \cup Durations, intr \in BOOLEAN :
       OnMessage(s, a, intr)
  \/ \E m \in decoding : DecodeDone(m)
  \/ \E k \in 1..MaxMsgs : SourceEnded(k)

SchedSpec == Init /\ [][SchedNext]_vars

\* The prompt list and its throttled push during the life of the first session
PromptIds == {ThrottleDelay + k * ClockStep : k \in 0..(MaxClock \div ClockStep)}

ThrottleNext ==
  \/ FirstConnect
  \/ \E c \in SessionIds : GumGranted(c)
  \/ \E s \in SessionIds : OnOpen(s)
  \/ \E s \in SessionIds : OnClose(s)
  \/ \E t \in Texts : addPresetPrompt(t)
  \/ \E i \in PromptIds : removePrompt(i)
  \/ \E i \in PromptIds, w \in NewWeights : updatePromptWeight(i, w)
  \/ ClockAdvance

ThrottleSpec == Init /\ [][ThrottleNext]_vars

\* The Record button next to the session lifecycle
RecNext ==
  \/ ConnectLiveSession
  \/ \E c \in SessionIds : GumGranted(c)
  \/ \E s \in SessionIds : OnOpen(s)
  \/ \E s \in SessionIds : OnError(s)
  \/ \E s \in SessionIds : OnClose(s)
  \/ StopButtonClick
  \/ pausePlayback
  \/ resumePlayback
  \/ RecordButtonClick
  \/ \E hasData \in BOOLEAN : RecorderStopEvent(hasData)
  \/ FfmpegLoaded
  \/ TranscodeFailed
  \/ TranscodeDone

RecSpec == Init /\ [][RecNext]_vars

\* ================================================================ claims

\* C1: in every reachable state at most one remote session handle is live
\* (opened or being opened, and not yet closed or errored).
C1_AtMostOneLiveHandle == Cardinality(LiveHandles) <= 1

\* C4: once stopPlayback has completed, playbackState is "stopped" and stays so
\* until the next call of connectLiveSession.
C4_StoppedUntilNextConnect == stopDone => playbackState = "stopped"

C8_PauseResumeKeepSession ==
  /\ [][(ev' \in {"pause", "resume"} /\ playbackState' # playbackState)
          => UNCHANGED <<sessionPromise, session, opened, mediaStream,
                         scriptProcessor, inputAudioContext, gumPending,
                         nConnects>>]_vars
  /\ [][(ev' = "frame" /\ playbackState = "paused" /\ sessionPromise # 0
           /\ session[sessionPromise] = "open")
          => frameOut' = "sent"]_vars

C8_Witness ==
  /\ ev = "resume"
  /\ playbackState = "playing"
  /\ frameOut = "sent"
  /\ sessionPromise # 0
  /\ session[sessionPromise] = "open"
  /\ mediaStream = sessionPromise
  /\ scriptProcessor = sessionPromise

\* C2: a segment started while playing, with no interruption, pause or stop
\* since the segment before it, starts at max(end of the segment before it,
\* device time); the end is 0 when none came before, and the device time is
\* read either when the segment is received or when its source is started.
C2_GaplessSchedule ==
  \/ sched = <<>>
  \/ sched[1].start = Max(sched[1].prev, sched[1].recv)
  \/ sched[1].start = Max(sched[1].prev, sched[1].at)

C9_ResumeRestartsAtNow ==
  resumeStart = <<>> \/ resumeStart[1] = resumeStart[2]


\* the session the component holds is open
HandleOpen == sessionPromise # 0 /\ session[sessionPromise] = "open"

\* the throttle window that the first mutation at winStart began is over, and
\* every mutation in it was made while the session was open
WindowOver == winStart # -1 /\ winOpen /\ HandleOpen /\ dateNow >= winStart + ThrottleDelay

\* C6: the N >= 1 mutations of the prompt list made within one 100 ms window
\* while a session handle exists produce exactly one push, and that push
\* carries the prompt state after the Nth mutation.
C6_OnePushWithLastState ==
  WindowOver => (winPushes = 1 /\ remoteConfig = currentMusicConfig(prompts))

\* C7: no prompt update is dropped: once the mutations have ceased for a whole
\* throttle window (nothing but a further mutation pushes after that), the
\* last config pushed to the open session is the current config.
C7_NoUpdateDropped ==
  (WindowOver /\ \A s \in SessionIds : thenQueue[s] = 0)
    => remoteConfig = currentMusicConfig(prompts)


\* C10: a click on the Record button while playbackState is not "playing"
\* (stopped, loading or paused) is rejected: no recorder is created or
\* stopped, recordingState and the gain node's wiring stay as they are.
C10_RecordNeedsPlaying ==
  [][(RecordButtonClick /\ playbackState # "playing")
       => UNCHANGED <<recVars, gainOut>>]_vars

C10_Witness ==
  /\ ev = "recordRejected"
  /\ playbackState = "paused"
  /\ outputAudioContext
  /\ recordingState = "idle"
  /\ mediaRecorder = "none"


\* everything the component owns for a session is released
TornDown ==
  /\ playbackState = "stopped"
  /\ mediaStream = 0
  /\ scriptProcessor = 0
  /\ sources = {}
  /\ nextStartTime = 0
  /\ sessionPromise = 0
  /\ \A s \in SessionIds : session[s] \notin {"connecting", "open"}

\* C11: right after a session error, a close, a denied capture permission or a
\* rejected open, playbackState is "stopped", the stream, the processor, the
\* sources, the clock and the handle reference are released and no session is
\* left open.
C11_TornDownAfterFailure ==
  ev \in {"error", "close", "denied", "rejected"} => TornDown

\* C12: the component is never in "loading" with nothing left that could end
\* it: no pending getUserMedia and no session whose callbacks may still run.
C12_NeverStuckLoading ==
  playbackState = "loading" => (gumPending # {} \/ LiveHandles # {})


\* C13: right after pausePlayback has run from "playing", every source is
\* stopped and removed, the clock nextStartTime is 0 and playbackState is "paused".
C13_PauseResetsClock ==
  ev = "pause" => (sources = {} /\ nextStartTime = 0 /\ playbackState = "paused")

\* C14: a segment of duration d received while paused, with no interruption,
\* pause, stop or teardown before its decode is done, leaves the clock at
\* max(clock, device time) + d, both read when the segment is received.
C14_PausedSegmentAdvancesClock ==
  pausedClock = <<>> \/ pausedClock[1] = pausedClock[2]


\* a recorder is recording, or a stop event or a transcode of one is pending
RecorderActive == mediaRecorder = "recording"
TranscodeInFlight == recJob # "none"

\* C15: a recorder is never active while the stop event or the transcode of
\* another recording is pending, an FFmpeg instance exists only during a
\* transcode, and a click on the Record button while recordingState is
\* "processing" changes no recording state and no wiring.
C15_OneJobInFlight ==
  /\ [](~(RecorderActive /\ TranscodeInFlight))
  /\ [](ffmpeg => recJob \in {"loading", "exec"})
  /\ [][(RecordButtonClick /\ recordingState = "processing")
          => UNCHANGED <<recVars, gainOut>>]_vars

C15_Witness ==
  /\ ev = "recordRejected"
  /\ playbackState = "playing"
  /\ recordingState = "processing"
  /\ TranscodeInFlight


\* C16: right after the transcoder failed to load or to encode, recordingState
\* is "idle", the chunk buffer is empty, no object URL is exposed and the
\* FFmpeg instance is released.
C16_FailureReleasesBuffers ==
  ev = "transcodeFailed"
    => (recordingState = "idle" /\ ~recordedChunks /\ ~recordedAudioUrl /\ ~ffmpeg)

\* C17: while playing, a click on the Record button with recordingState
\* "idle" or "finished" starts a recording: the previous object URL is
\* dropped and recordingState becomes "recording".
C17_StartFromFinished ==
  [][(RecordButtonClick /\ playbackState = "playing" /\ outputAudioContext
        /\ recordingState \in {"idle", "finished"})
       => (recordingState' = "recording" /\ ~recordedAudioUrl')]_vars


\* cfg is what the claim says the snapshot of the prompt list ps is
IsSnapshotOf(cfg, ps) ==
  IF ps = <<>>
    THEN cfg = <<[text |-> "ambient pads", weight |-> 70]>>
    ELSE /\ Len(cfg) = Len(ps)
         /\ \A i \in 1..Len(ps) :
              cfg[i] = [text |-> ps[i].text, weight |-> ps[i].weight]

\* C18: currentMusicConfig is the list of {text, weight} of every prompt in
\* order, or the single fallback prompt {"ambient pads", 0.7} when the list is
\* empty, and whenever the session receives a config, at connect or by a
\* push, it is that snapshot of the prompt list of that moment.
C18_ConfigSnapshot ==
  /\ [](IsSnapshotOf(currentMusicConfig(prompts), prompts))
  /\ [][remoteConfig' # remoteConfig => IsSnapshotOf(remoteConfig', prompts')]_vars

\* a push made after the last prompt was removed carried the fallback
C18_Witness ==
  /\ ev = "prompt"
  /\ prompts = <<>>
  /\ HandleOpen
  /\ winStart = dateNow /\ winOpen /\ winPushes = 1
  /\ lastCall = dateNow /\ lastCall > ThrottleDelay
  /\ remoteConfig = <<[text |-> "ambient pads", weight |-> 70]>>


\* C19: a mutation of the prompt list made while the component holds no
\* session promise (before connect, or after onclose/onerror cleared it)
\* delivers no config, queues nothing, raises nothing and changes no session
\* state.
C19_PushWithoutHandle ==
  [][(prompts' # prompts /\ sessionPromise = 0)
       => (/\ remoteConfig' = remoteConfig
           /\ thenQueue' = thenQueue
           /\ raised' = raised
           /\ UNCHANGED <<sessionVars, audioVars>>)]_vars

\* the throttle let a call through after the session had been closed
C19_Witness ==
  /\ ev = "prompt"
  /\ sessionPromise = 0
  /\ nConnects = 1
  /\ session[1] = "closed"
  /\ lastCall = dateNow
  /\ remoteConfig # currentMusicConfig(prompts)


\* C20: connectLiveSession called while playing or loading, pausePlayback
\* called in another state than playing and resumePlayback called in another
\* state than paused leave playbackState, the session promise, the sessions,
\* the clock and the sources unchanged.
C20_GuardedCallsAreNoOps ==
  [][(\/ (ConnectLiveSession \/ ConnectWhileBusy) /\ playbackState \in {"playing", "loading"}
      \/ (pausePlayback \/ PauseOutsidePlaying) /\ playbackState # "playing"
      \/ (resumePlayback \/ ResumeOutsidePaused) /\ playbackState # "paused")
       => UNCHANGED <<playbackState, sessionPromise, session, opened, gumPending,
                      nextStartTime, sources>>]_vars

\* pausePlayback was called while loading, with a getUserMedia pending
C20_Witness ==
  /\ ev = "pauseIgnored"
  /\ playbackState = "loading"
  /\ gumPending # {}


\* C21: every source is started at a time that is not before the output device's
\* time at the moment of its start() call, also when an interruption reset the
\* clock to 0 while its segment was being decoded.
C21_NeverStartedInPast ==
  lastStart = <<>> \/ ~lastStart[1].past


\* C22: once teardown has released the output context and the gain node, a
\* segment that arrives, or whose decode completes, is dropped: no source is
\* created or started, the clock and the sources stay as they are and no
\* handler throws.
C22_DroppedAfterTeardown ==
  [][(/\ ~outputAudioContext
      /\ ~outputGainNode
      /\ \/ \E m \in decoding : DecodeDone(m)
         \/ \E s \in SessionIds, a \in Durations, intr \in BOOLEAN : OnMessage(s, a, intr))
       => (/\ sources' = sources
           /\ nextStartTime' = nextStartTime
           /\ raised' = raised)]_vars


\* C23: the 'ended' callback of a source removes that source and no other from
\* the set of active sources; when it fires for a source that stop, pause or an
\* interruption has already removed, the clock, the sources and playbackState
\* stay as they are and nothing throws.
C23_EndedRemovesOwnSource ==
  [][\A k \in 1..MaxMsgs :
       SourceEnded(k) =>
         /\ sources' = {src \in sources : src.id # k}
         /\ nextStartTime' = nextStartTime
         /\ playbackState' = playbackState
         /\ raised' = raised
         /\ (k \in stopped => sources' = sources)]_vars

\* C23 witness: an 'ended' event fired for a source that had been stopped, while
\* another source was active.
C23_Witness ==
  ev = "lateEnded" /\ sources # {} /\ stopped = {}


C25_TeardownIdempotent ==
  [][(/\ \E s \in SessionIds : OnError(s) \/ OnClose(s)
      /\ mediaStream = 0
      /\ scriptProcessor = 0
      /\ ~inputAudioContext
      /\ ~outputAudioContext
      /\ sources = {}
      /\ nextStartTime = 0)
       => (/\ UNCHANGED audioVars
           /\ teardowns' = teardowns
           /\ raised' = raised
           /\ playbackState' = "stopped"
           /\ sessionPromise' = 0)]_vars

\* C25 witness: a close callback ran its teardown after an earlier teardown had
\* released everything.
C25_Witness ==
  ev = "close" /\ idleCleanup /\ teardowns = 1 /\ ~outputAudioContext


\* --------------------------------------------- segments of length zero
\* sample of decoded segment lengths that holds the empty segment
ShortDurations == {0, 1}

\* the scheduler fed with messages that carry no audio, an empty segment or a
\* segment of one tick
ShortNext ==
  \/ FirstConnect
  \/ \E c \in SessionIds : GumGranted(c)
  \/ \E s \in SessionIds : OnOpen(s)
  \/ pausePlayback
  \/ resumePlayback
  \/ Tick
  \/ \E s \in SessionIds, a \in {NoAudio} \cup ShortDurations, intr \in BOOLEAN :
       OnMessage(s, a, intr)
  \/ \E m \in decoding : DecodeDone(m)
  \/ \E k \in 1..MaxMsgs : SourceEnded(k)

ShortSpec == Init /\ [][ShortNext]_vars

\* C26: a message without the interrupted flag whose audio is absent, or whose
\* decoded segment has duration zero, leaves the clock nextStartTime and the
\* set of active sources as they were, both when it is received and when its
\* decode completes.
C26_EmptySegmentIsNoOp ==
  [][(\/ \E s \in SessionIds, a \in {NoAudio, 0} : OnMessage(s, a, FALSE)
      \/ \E m \in decoding : m.dur = 0 /\ ~m.intr /\ DecodeDone(m))
       => (/\ nextStartTime' = nextStartTime
           /\ sources' = sources)]_vars


\* C27: starting and stopping a recording never detaches playback from the
\* playback device: while playbackState is "playing" and the output context
\* exists, the gain node is connected to the context's destination.
C27_PlaybackStaysConnected ==
  (playbackState = "playing" /\ outputAudioContext) => "destination" \in gainOut


\* C28: no segment received before an interruption is started, or added to the
\* active sources, once that interruption has been processed, also when its
\* decode was still in progress at the interruption.
C28_NoStartAfterInterruption ==
  lastStart = <<>> \/ ~lastStart[1].stale

\* C29: while playbackState is "paused" there is no active source, also when a
\* segment received while playing completes its decode after pausePlayback.
C29_PausedHasNoSources ==
  playbackState = "paused" => sources = {}

\* C30: between two resets of the clock, sources are started in the order in
\* which their messages were received, whatever the order in which the decodes
\* complete: none is started while an earlier one is still being decoded.
C30_StartedInReceiptOrder ==
  lastStart = <<>> \/ lastStart[1].stale \/ ~lastStart[1].overtook


\* ------------------------------------------- termination of a recording
\* The recorder delivers its stop event, and ffmpeg.load and the encode each
\* return or fail.
RecFairness ==
  /\ WF_vars(\E hasData \in BOOLEAN : RecorderStopEvent(hasData))
  /\ WF_vars(FfmpegLoaded \/ TranscodeFailed)
  /\ WF_vars(TranscodeDone \/ TranscodeFailed)

RecLiveSpec == Init /\ [][RecNext]_vars /\ RecFairness

\* C31: every recording that is stopped terminates: when the recorder delivers
\* its stop event and the transcoder's load and encode each return or fail,
\* recordingState leaves "processing" and "initializing" and reaches "finished"
\* or "idle", whatever pause, stop and close events of the session interleave.
C31_StoppedRecordingTerminates ==
  (recordingState \in {"processing", "initializing"})
    ~> (recordingState \in {"finished", "idle"})

\* C31 witness: a stopped recording reached "finished" after the session was
\* stopped while it was being processed.
C31_Witness ==
  ev = "transcodeDone" /\ recordingState = "finished" /\ playbackState = "stopped"

====
